---- MODULE Spec2Model ----
(***************************************************************************)
(* Model of scripts/merge_rail_pathways.py: the station-scope closure, the *)
(* scoped extraction of pathways and levels, the column-preserving merge   *)
(* of stops.txt and the final replacement of the installed rail feed.      *)
(*                                                                         *)
(* A table is a record [exists, cols, rows]: cols is the ordered column    *)
(* list, rows a sequence of functions from column name to a string cell.   *)
(* pandas semantics are those of pandas 1.x / 2.x (DataFrame.update aligns *)
(* on the index and copies every non-NA cell of the other frame).          *)
(***************************************************************************)
EXTENDS Integers, Sequences, FiniteSets, TLC

\* ---------------------------------------------------------------- bounds
MaxStops == 3
MaxTargetStops == 2
MaxPathways == 2

\* ------------------------------------------------------- directory names
CURRENT_RAIL_DIR == "gtfs-unzipped/current/gtfs_rail"
PATHWAYS_SOURCE_DIR == "temp/pathways-source"
GTFS_TARGET_DIR == "temp/pathways-target"
DirNames == {CURRENT_RAIL_DIR, PATHWAYS_SOURCE_DIR, GTFS_TARGET_DIR}

\* --------------------------------------------------------------- state
VARIABLES pc, fs, inp, stops_df, in_scope, iterations, scoped_stops,
          scoped_pathways, scoped_levels, target_stops_df, out, report

vars == <<pc, fs, inp, stops_df, in_scope, iterations, scoped_stops,
          scoped_pathways, scoped_levels, target_stops_df, out, report>>

\* ------------------------------------------------------ generic helpers
Range(s) == {s[i] : i \in 1..Len(s)}

InSeq(s, x) == \E i \in 1..Len(s) : s[i] = x

\* [c for c in s if c != x]
Without(s, x) == SelectSeq(s, LAMBDA c : c # x)

\* ------------------------------------------------------- tables & files
NoTable == [exists |-> FALSE, cols |-> <<>>, rows |-> <<>>]

File(cols, rows) == [exists |-> TRUE, cols |-> cols, rows |-> rows]

NoDir == [exists |-> FALSE, stops |-> NoTable, pathways |-> NoTable,
          levels |-> NoTable, other |-> ""]

\* Cell texts that pandas.read_csv turns into NaN (default na_values); the
\* model carries the empty cell and the token "NA".
NaTokens == {"", "NA"}

\* pd.read_csv(path, dtype=str).fillna(""): every NaN cell becomes "".
ReadCsv(file) ==
    [exists |-> TRUE,
     cols |-> file.cols,
     rows |-> [i \in 1..Len(file.rows) |->
                 [c \in DOMAIN file.rows[i] |->
                    IF file.rows[i][c] \in NaTokens THEN "" ELSE file.rows[i][c]]]]

\* df.to_csv(path, index=False): header plus one line per row.
ToCsv(df) == [exists |-> TRUE, cols |-> df.cols, rows |-> df.rows]

HasCol(df, c) == InSeq(df.cols, c)

\* df[df[col].isin(keys)].reset_index(drop=True)
FilterIsin(df, col, keys) ==
    [df EXCEPT !.rows = SelectSeq(df.rows, LAMBDA r : r[col] \in keys)]

\* df[c] = ""  (new column appended at the end of the column list)
AddCol(df, c) ==
    [df EXCEPT !.cols = Append(df.cols, c),
               !.rows = [i \in 1..Len(df.rows) |->
                           [x \in (DOMAIN df.rows[i]) \cup {c} |->
                              IF x = c THEN "" ELSE df.rows[i][x]]]]

\* df[cols]: same data, columns in the given order
SelectCols(df, cols) == [df EXCEPT !.cols = cols]

\* df.reindex(columns=cols, fill_value=fill)
Reindex(df, cols, fill) ==
    [df EXCEPT !.cols = cols,
               !.rows = [i \in 1..Len(df.rows) |->
                           [c \in Range(cols) |->
                              IF c \in DOMAIN df.rows[i] THEN df.rows[i][c]
                              ELSE fill]]]

\* reset_index(drop=True): the key does not come back as a column.
ResetIndexColsDrop(cols, key) == Without(cols, key)

\* df.set_index(key) followed, after the work on the frame, by
\* df.reset_index(): the key column leaves the column list and comes back
\* as the first column.
ResetIndexCols(cols, key) == <<key>> \o Without(cols, key)

\* ------------------------------------------------------ Step 3: closure
\* set(stops_df.loc[stops_df["parent_station"].isin(in_scope), "stop_id"])
ChildrenOfRootsOnly(df, scope) ==
    {df.rows[i]["stop_id"] : i \in {k \in 1..Len(df.rows) :
                          df.rows[k]["parent_station"] \in inp.INCLUDED_STOPS}}

Children(df, scope) ==
    {df.rows[i]["stop_id"] : i \in {k \in 1..Len(df.rows) :
                                      df.rows[k]["parent_station"] \in scope}}

\* One pass over the table instead of the loop.
ClosureSinglePass(df, roots) == roots \cup Children(df, roots)

\* Lines 204-210 as a function of the stops table and the root set.
RECURSIVE ClosureLoop(_, _)
ClosureLoop(df, roots) ==
    LET new == Children(df, roots) \ roots
    IN  IF new = {} THEN roots ELSE ClosureLoop(df, roots \cup new)

\* ------------------------------------------- Steps 4 and 5: extraction
\* pathways_df[from_stop_id.isin(in_scope) & to_stop_id.isin(in_scope)]
InScopePathwayEither(r, scope) ==
    r["from_stop_id"] \in scope \/ r["to_stop_id"] \in scope

InScopePathway(r, scope) ==
    r["from_stop_id"] \in scope /\ r["to_stop_id"] \in scope

ScopePathways(df, scope) ==
    [df EXCEPT !.rows = SelectSeq(df.rows, LAMBDA r : InScopePathway(r, scope))]

\* set(scoped_stops["level_id"].dropna().unique()) - {""}
ScopedLevelIdsWithEmpty(stops) ==
    {stops.rows[i]["level_id"] : i \in 1..Len(stops.rows)}

ScopedLevelIds(stops) ==
    {stops.rows[i]["level_id"] : i \in 1..Len(stops.rows)} \ {""}

\* ------------------------------------------------ Step 6: stops merge
PathwayRelatedColsNoLevel == <<"stop_timezone", "wheelchair_boarding">>

PathwayRelatedCols == <<"stop_timezone", "wheelchair_boarding", "level_id">>

\* for col in [...]: if col not in target_stops_df.columns: df[col] = ""
RECURSIVE AddMissingCols(_, _, _)
AddMissingCols(df, cols, i) ==
    IF i > Len(cols) THEN df
    ELSE AddMissingCols(IF HasCol(df, cols[i]) THEN df ELSE AddCol(df, cols[i]),
                        cols, i + 1)

\* Move tpis_name to the end of the column list
MoveTpisLast(df) ==
    IF HasCol(df, "tpis_name")
    THEN SelectCols(df, Append(Without(df.cols, "tpis_name"), "tpis_name"))
    ELSE df

\* scoped_stops.reindex(columns=target_stops_df.columns, fill_value="")
AlignScoped(scoped, target) == Reindex(scoped, target.cols, "")

\* The row of `other` carrying index label k (other's index is unique).
RowOf(other, k) ==
    other.rows[CHOOSE j \in 1..Len(other.rows) : other.rows[j]["stop_id"] = k]

HasKey(df, k) == \E j \in 1..Len(df.rows) : df.rows[j]["stop_id"] = k

\* One cell of DataFrame.update: `that` is the cell of the other frame, never
\* NaN here because both frames went through fillna("").
UpdateCellSkipEmpty(this, that) == IF that = "" THEN this ELSE that

UpdateCell(this, that) == that

\* target_stops_df.update(scoped_stops_aligned), both indexed on stop_id
UpdateRows(target, other) ==
    [target EXCEPT !.rows =
        [i \in 1..Len(target.rows) |->
           IF HasKey(other, target.rows[i]["stop_id"])
           THEN [c \in DOMAIN target.rows[i] |->
                   IF c = "stop_id" THEN target.rows[i][c]
                   ELSE UpdateCell(target.rows[i][c],
                                   RowOf(other, target.rows[i]["stop_id"])[c])]
           ELSE target.rows[i]]]

\* Every scoped row appended, the ones already in the target too.
NewStopsAll(other, target) == other.rows

\* scoped_stops_aligned[~scoped_stops_aligned.index.isin(target.index)]
NewStops(other, target) ==
    SelectSeq(other.rows, LAMBDA r : ~HasKey(target, r["stop_id"]))

\* pd.concat([new_stops, target_stops_df])
ConcatResetNewFirst(target, new) ==
    [exists |-> TRUE,
     cols |-> ResetIndexCols(target.cols, "stop_id"),
     rows |-> new \o target.rows]

\* pd.concat([target_stops_df, new_stops]) then reset_index()
ConcatReset(target, new) ==
    [exists |-> TRUE,
     cols |-> ResetIndexCols(target.cols, "stop_id"),
     rows |-> target.rows \o new]

\* Lines 275-300 as one function of the target frame and the scoped stops.
PrepareTarget(target) == MoveTpisLast(AddMissingCols(target, PathwayRelatedCols, 1))

\* Wholesale replacement of the stops table by the scoped stops.
MergeStopsReplace(target, scoped) ==
    LET t == PrepareTarget(target)
    IN  ConcatReset([t EXCEPT !.rows = <<>>], AlignScoped(scoped, t).rows)

MergeStops(target, scoped) ==
    LET t == PrepareTarget(target)
        a == AlignScoped(scoped, t)
    IN  ConcatReset(UpdateRows(t, a), NewStops(a, t))

\* target_stops_df.set_index("stop_id") raises KeyError without the column.
\* (Feeds carry unique stop_id values, so update never meets duplicate labels.)
MergeStopsRaises(target) == ~HasCol(target, "stop_id")

\* --------------------------------------------------------------- state
\* Paths written by Step 6 and Step 7.
installed_stops_path == CURRENT_RAIL_DIR

target_stops_path == GTFS_TARGET_DIR
pathways_out_path == GTFS_TARGET_DIR
levels_out_path == GTFS_TARGET_DIR

\* shutil.rmtree(dest); shutil.copytree(src, dest)   /   unzip_into(zip, dest)
ReplaceDir(f, dest, content) == [f EXCEPT ![dest] = content]

\* to_csv(path, mode="a"): rows added below the rows already in the file.
WriteFileAppend(f, dir, name, df) ==
    [f EXCEPT ![dir] = [f[dir] EXCEPT
                          ![name] = [ToCsv(df) EXCEPT
                                       !.rows = f[dir][name].rows \o df.rows],
                          !.exists = TRUE]]

WriteFile(f, dir, name, df) ==
    [f EXCEPT ![dir] = [f[dir] EXCEPT ![name] = ToCsv(df), !.exists = TRUE]]

Fail(msg) ==
    /\ pc' = "failed"
    /\ out' = out \cup {msg}

\* ---- Step 1: populate temp/pathways-source
Step1Current ==
    /\ pc = "step1" /\ inp.pathways_source = "current"
    /\ fs[CURRENT_RAIL_DIR].exists
    /\ fs' = ReplaceDir(fs, PATHWAYS_SOURCE_DIR, fs[CURRENT_RAIL_DIR])
    /\ pc' = "step2"
    /\ UNCHANGED <<inp, stops_df, in_scope, iterations, scoped_stops,
                   scoped_pathways, scoped_levels, target_stops_df, out, report>>

Step1Prompt ==
    /\ pc = "step1" /\ inp.pathways_source = "prompt"
    /\ inp.source_zip.exists
    /\ fs' = ReplaceDir(fs, PATHWAYS_SOURCE_DIR, inp.source_zip)
    /\ pc' = "step2"
    /\ UNCHANGED <<inp, stops_df, in_scope, iterations, scoped_stops,
                   scoped_pathways, scoped_levels, target_stops_df, out, report>>

Step1Fail ==
    /\ pc = "step1"
    /\ \/ inp.pathways_source = "current" /\ ~fs[CURRENT_RAIL_DIR].exists
       \/ inp.pathways_source = "prompt" /\ ~inp.source_zip.exists
    /\ Fail("FileNotFoundError: step 1")
    /\ UNCHANGED <<fs, inp, stops_df, in_scope, iterations, scoped_stops,
                   scoped_pathways, scoped_levels, target_stops_df, report>>

\* ---- Step 2: populate temp/pathways-target
Step2Current ==
    /\ pc = "step2" /\ inp.gtfs_target = "current"
    /\ fs[CURRENT_RAIL_DIR].exists
    /\ fs' = ReplaceDir(fs, GTFS_TARGET_DIR, fs[CURRENT_RAIL_DIR])
    /\ pc' = "step3"
    /\ UNCHANGED <<inp, stops_df, in_scope, iterations, scoped_stops,
                   scoped_pathways, scoped_levels, target_stops_df, out, report>>

\* gitlab download and prompt both end in unzip_into(zip, GTFS_TARGET_DIR)
Step2Unzip ==
    /\ pc = "step2" /\ inp.gtfs_target \in {"gitlab", "prompt"}
    /\ inp.target_zip.exists
    /\ fs' = ReplaceDir(fs, GTFS_TARGET_DIR, inp.target_zip)
    /\ pc' = "step3"
    /\ UNCHANGED <<inp, stops_df, in_scope, iterations, scoped_stops,
                   scoped_pathways, scoped_levels, target_stops_df, out, report>>

Step2Fail ==
    /\ pc = "step2"
    /\ \/ inp.gtfs_target = "current" /\ ~fs[CURRENT_RAIL_DIR].exists
       \/ inp.gtfs_target \in {"gitlab", "prompt"} /\ ~inp.target_zip.exists
    /\ Fail("FileNotFoundError: step 2")
    /\ UNCHANGED <<fs, inp, stops_df, in_scope, iterations, scoped_stops,
                   scoped_pathways, scoped_levels, target_stops_df, report>>

\* ---- Step 3: read source stops, closure loop, scoped stops
Step3Read ==
    /\ pc = "step3"
    /\ fs[PATHWAYS_SOURCE_DIR].stops.exists
    /\ stops_df' = ReadCsv(fs[PATHWAYS_SOURCE_DIR].stops)
    /\ in_scope' = inp.INCLUDED_STOPS
    /\ pc' = "loop"
    /\ UNCHANGED <<fs, inp, iterations, scoped_stops, scoped_pathways,
                   scoped_levels, target_stops_df, out, report>>

Step3ReadFail ==
    /\ pc = "step3"
    /\ ~fs[PATHWAYS_SOURCE_DIR].stops.exists
    /\ Fail("FileNotFoundError: source stops.txt")
    /\ UNCHANGED <<fs, inp, stops_df, in_scope, iterations, scoped_stops,
                   scoped_pathways, scoped_levels, target_stops_df, report>>

LoopColsOk == HasCol(stops_df, "parent_station") /\ HasCol(stops_df, "stop_id")

\* A pass that forgets `- in_scope`.
LoopIterNoSubtract ==
    /\ pc = "loop" /\ LoopColsOk
    /\ LET new == Children(stops_df, in_scope)
       IN  /\ new # {}
           /\ in_scope' = in_scope \cup new
    /\ iterations' = iterations + 1
    /\ UNCHANGED <<pc, fs, inp, stops_df, scoped_stops, scoped_pathways,
                   scoped_levels, target_stops_df, out, report>>

\* one pass of `while True` that finds new ids
LoopIter ==
    /\ pc = "loop" /\ LoopColsOk
    /\ LET new == Children(stops_df, in_scope) \ in_scope
       IN  /\ new # {}
           /\ in_scope' = in_scope \cup new
    /\ iterations' = iterations + 1
    /\ UNCHANGED <<pc, fs, inp, stops_df, scoped_stops, scoped_pathways,
                   scoped_levels, target_stops_df, out, report>>

\* the pass that finds nothing new: break
LoopBreak ==
    /\ pc = "loop" /\ LoopColsOk
    /\ Children(stops_df, in_scope) \ in_scope = {}
    /\ iterations' = iterations + 1
    /\ pc' = "scoped"
    /\ UNCHANGED <<fs, inp, stops_df, in_scope, scoped_stops, scoped_pathways,
                   scoped_levels, target_stops_df, out, report>>

LoopFail ==
    /\ pc = "loop" /\ ~LoopColsOk
    /\ Fail("KeyError: source stops column")
    /\ UNCHANGED <<fs, inp, stops_df, in_scope, iterations, scoped_stops,
                   scoped_pathways, scoped_levels, target_stops_df, report>>

PrintedStopCols == {"stop_id", "stop_name", "location_type", "parent_station"}

Step3Scoped ==
    /\ pc = "scoped"
    /\ PrintedStopCols \subseteq Range(stops_df.cols)
    /\ scoped_stops' = FilterIsin(stops_df, "stop_id", in_scope)
    /\ pc' = "step4"
    /\ UNCHANGED <<fs, inp, stops_df, in_scope, iterations, scoped_pathways,
                   scoped_levels, target_stops_df, out, report>>

Step3ScopedFail ==
    /\ pc = "scoped"
    /\ ~(PrintedStopCols \subseteq Range(stops_df.cols))
    /\ scoped_stops' = FilterIsin(stops_df, "stop_id", in_scope)
    /\ Fail("KeyError: printed stop columns")
    /\ UNCHANGED <<fs, inp, stops_df, in_scope, iterations,
                   scoped_pathways, scoped_levels, target_stops_df, report>>

\* ---- Step 4: scoped pathways
PathwayKeyCols == {"from_stop_id", "to_stop_id"}
PrintedPathwayCols == {"pathway_id", "from_stop_id", "to_stop_id",
                       "pathway_mode", "is_bidirectional"}

Step4Skip ==
    /\ pc = "step4"
    /\ ~fs[PATHWAYS_SOURCE_DIR].pathways.exists
    /\ out' = out \cup {"No pathways.txt found in the pathways source"}
    /\ pc' = "step5"
    /\ UNCHANGED <<fs, inp, stops_df, in_scope, iterations, scoped_stops,
                   scoped_pathways, scoped_levels, target_stops_df, report>>

Step4Filter ==
    /\ pc = "step4"
    /\ fs[PATHWAYS_SOURCE_DIR].pathways.exists
    /\ LET pathways_df == ReadCsv(fs[PATHWAYS_SOURCE_DIR].pathways)
       IN  /\ PrintedPathwayCols \subseteq Range(pathways_df.cols)
           /\ scoped_pathways' = ScopePathways(pathways_df, in_scope)
    /\ pc' = "step5"
    /\ UNCHANGED <<fs, inp, stops_df, in_scope, iterations, scoped_stops,
                   scoped_levels, target_stops_df, out, report>>

Step4Fail ==
    /\ pc = "step4"
    /\ fs[PATHWAYS_SOURCE_DIR].pathways.exists
    /\ LET pathways_df == ReadCsv(fs[PATHWAYS_SOURCE_DIR].pathways)
       IN  /\ ~(PrintedPathwayCols \subseteq Range(pathways_df.cols))
           /\ scoped_pathways' =
                 IF PathwayKeyCols \subseteq Range(pathways_df.cols)
                 THEN ScopePathways(pathways_df, in_scope)
                 ELSE scoped_pathways
    /\ Fail("KeyError: pathways column")
    /\ UNCHANGED <<fs, inp, stops_df, in_scope, iterations, scoped_stops,
                   scoped_levels, target_stops_df, report>>

\* ---- Step 5: scoped levels
Step5Skip ==
    /\ pc = "step5"
    /\ ~fs[PATHWAYS_SOURCE_DIR].levels.exists
    /\ out' = out \cup {"No levels.txt found in the pathways source"}
    /\ pc' = "step6_stops"
    /\ UNCHANGED <<fs, inp, stops_df, in_scope, iterations, scoped_stops,
                   scoped_pathways, scoped_levels, target_stops_df, report>>

Step5ColsOk(levels_df) ==
    HasCol(scoped_stops, "level_id") /\ HasCol(levels_df, "level_id")

Step5Filter ==
    /\ pc = "step5"
    /\ fs[PATHWAYS_SOURCE_DIR].levels.exists
    /\ LET levels_df == ReadCsv(fs[PATHWAYS_SOURCE_DIR].levels)
       IN  /\ Step5ColsOk(levels_df)
           /\ scoped_levels' =
                 FilterIsin(levels_df, "level_id", ScopedLevelIds(scoped_stops))
    /\ pc' = "step6_stops"
    /\ UNCHANGED <<fs, inp, stops_df, in_scope, iterations, scoped_stops,
                   scoped_pathways, target_stops_df, out, report>>

Step5Fail ==
    /\ pc = "step5"
    /\ fs[PATHWAYS_SOURCE_DIR].levels.exists
    /\ ~Step5ColsOk(ReadCsv(fs[PATHWAYS_SOURCE_DIR].levels))
    /\ Fail("KeyError: level_id")
    /\ UNCHANGED <<fs, inp, stops_df, in_scope, iterations, scoped_stops,
                   scoped_pathways, scoped_levels, target_stops_df, report>>

\* ---- Step 6: write merged data into temp/pathways-target
Step6Stops ==
    /\ pc = "step6_stops"
    /\ fs[GTFS_TARGET_DIR].stops.exists
    /\ LET target == ReadCsv(fs[GTFS_TARGET_DIR].stops)
       IN  /\ ~MergeStopsRaises(target)
           /\ target_stops_df' = MergeStops(target, scoped_stops)
    /\ fs' = WriteFile(fs, target_stops_path, "stops", target_stops_df')
    /\ report' = [report EXCEPT !.stops_updated = Len(scoped_stops.rows),
                                !.stops_total = Len(target_stops_df'.rows)]
    /\ pc' = "step6_pathways"
    /\ UNCHANGED <<inp, stops_df, in_scope, iterations, scoped_stops,
                   scoped_pathways, scoped_levels, out>>

\* The prepared target frame written back before the index is set.
Step6StopsFailAfterWrite ==
    /\ pc = "step6_stops"
    /\ \/ ~fs[GTFS_TARGET_DIR].stops.exists
       \/ MergeStopsRaises(ReadCsv(fs[GTFS_TARGET_DIR].stops))
    /\ fs' = IF fs[GTFS_TARGET_DIR].stops.exists
             THEN WriteFile(fs, target_stops_path, "stops",
                            PrepareTarget(ReadCsv(fs[GTFS_TARGET_DIR].stops)))
             ELSE fs
    /\ Fail("Error: target stops.txt")
    /\ UNCHANGED <<inp, stops_df, in_scope, iterations, scoped_stops,
                   scoped_pathways, scoped_levels, target_stops_df, report>>

Step6StopsFail ==
    /\ pc = "step6_stops"
    /\ \/ ~fs[GTFS_TARGET_DIR].stops.exists
       \/ MergeStopsRaises(ReadCsv(fs[GTFS_TARGET_DIR].stops))
    /\ Fail("Error: target stops.txt")
    /\ UNCHANGED <<fs, inp, stops_df, in_scope, iterations, scoped_stops,
                   scoped_pathways, scoped_levels, target_stops_df, report>>

Step6PathwaysWrite ==
    /\ pc = "step6_pathways"
    /\ scoped_pathways.exists
    /\ fs' = WriteFile(fs, pathways_out_path, "pathways", scoped_pathways)
    /\ report' = [report EXCEPT !.pathways_rows = Len(scoped_pathways.rows)]
    /\ pc' = "step6_levels"
    /\ UNCHANGED <<inp, stops_df, in_scope, iterations, scoped_stops,
                   scoped_pathways, scoped_levels, target_stops_df, out>>

\* A skip that truncates the target's pathways.txt.
Step6PathwaysTruncate ==
    /\ pc = "step6_pathways"
    /\ ~scoped_pathways.exists
    /\ fs' = WriteFile(fs, pathways_out_path, "pathways", File(<<>>, <<>>))
    /\ out' = out \cup {"WARNING: No pathways data found in pathways source"}
    /\ pc' = "step6_levels"
    /\ UNCHANGED <<inp, stops_df, in_scope, iterations, scoped_stops,
                   scoped_pathways, scoped_levels, target_stops_df, report>>

Step6PathwaysWarn ==
    /\ pc = "step6_pathways"
    /\ ~scoped_pathways.exists
    /\ out' = out \cup {"WARNING: No pathways data found in pathways source"}
    /\ pc' = "step6_levels"
    /\ UNCHANGED <<fs, inp, stops_df, in_scope, iterations, scoped_stops,
                   scoped_pathways, scoped_levels, target_stops_df, report>>

Step6LevelsWrite ==
    /\ pc = "step6_levels"
    /\ scoped_levels.exists
    /\ fs' = WriteFile(fs, levels_out_path, "levels", scoped_levels)
    /\ report' = [report EXCEPT !.levels_rows = Len(scoped_levels.rows)]
    /\ pc' = "step7_rmtree"
    /\ UNCHANGED <<inp, stops_df, in_scope, iterations, scoped_stops,
                   scoped_pathways, scoped_levels, target_stops_df, out>>

Step6LevelsSkip ==
    /\ pc = "step6_levels"
    /\ ~scoped_levels.exists
    /\ out' = out \cup {"levels.txt - no source data; skipped."}
    /\ pc' = "step7_rmtree"
    /\ UNCHANGED <<fs, inp, stops_df, in_scope, iterations, scoped_stops,
                   scoped_pathways, scoped_levels, target_stops_df, report>>

\* ---- Step 7: overwrite the installed feed with the merged target
Step7Rmtree ==
    /\ pc = "step7_rmtree"
    /\ fs' = IF fs[CURRENT_RAIL_DIR].exists
             THEN [fs EXCEPT ![CURRENT_RAIL_DIR] = NoDir] ELSE fs
    /\ pc' = "step7_copytree"
    /\ UNCHANGED <<inp, stops_df, in_scope, iterations, scoped_stops,
                   scoped_pathways, scoped_levels, target_stops_df, out, report>>

Step7Copytree ==
    /\ pc = "step7_copytree"
    /\ fs' = [fs EXCEPT ![CURRENT_RAIL_DIR] = fs[GTFS_TARGET_DIR]]
    /\ pc' = "done"
    /\ UNCHANGED <<inp, stops_df, in_scope, iterations, scoped_stops,
                   scoped_pathways, scoped_levels, target_stops_df, out, report>>

\* ------------------------------------------------------------- inputs
\* Stop ids of the modelled feeds, in file order.
IdSeq == <<"S1", "P1", "P2", "X9">>
Ids == Range(IdSeq)

\* included_stops of gtfs-meta.toml
RootSets == {{}, {"S1"}, {"P1"}, {"S1", "X9"}, {"R0"}}

SrcFull == <<"stop_id", "stop_name", "location_type", "parent_station",
             "level_id", "platform_code">>
SrcNoLevel == <<"stop_id", "stop_name", "location_type", "parent_station">>
SrcNoName == <<"stop_id", "parent_station", "level_id">>
SrcNoParent == <<"stop_id", "stop_name", "location_type">>

TgtBasic == <<"stop_id", "stop_name">>
TgtTpis == <<"stop_code", "stop_id", "stop_name", "tpis_name",
             "parent_station", "level_id">>
TgtNoKey == <<"stop_name", "stop_code">>

PwFull == <<"pathway_id", "from_stop_id", "to_stop_id", "pathway_mode",
            "is_bidirectional">>
PwNoMode == <<"pathway_id", "from_stop_id", "to_stop_id">>
PwNoFrom == <<"pathway_id", "to_stop_id", "pathway_mode", "is_bidirectional">>

LvFull == <<"level_id", "level_index">>
LvNoKey == <<"level_index">>

StopRow(schema, id, parent, lvl, v) ==
    [c \in Range(schema) |->
        CASE c = "stop_id" -> id
          [] c = "parent_station" -> parent
          [] c = "level_id" -> lvl
          [] OTHER -> v]

PathwayRow(schema, id, from, to) ==
    [c \in Range(schema) |->
        CASE c = "pathway_id" -> id
          [] c = "from_stop_id" -> from
          [] c = "to_stop_id" -> to
          [] OTHER -> "1"]

LevelRow(schema, id) ==
    [c \in Range(schema) |-> IF c = "level_id" THEN id ELSE "0"]

Feed(stops, pathways, levels, other) ==
    [exists |-> TRUE, stops |-> stops, pathways |-> pathways,
     levels |-> levels, other |-> other]

\* The candidate pathway rows of a source feed.
PathwayPool(schema) ==
    <<PathwayRow(schema, "w1", "P1", "P2"),
      PathwayRow(schema, "w2", "P1", "X9"),
      PathwayRow(schema, "w3", "S1", "P1"),
      PathwayRow(schema, "w4", "R0", "R0")>>

\* Subsequence of pool at the positions in pick.
Pick(pool, pick) ==
    LET idx == SelectSeq([i \in 1..Len(pool) |-> i], LAMBDA i : i \in pick)
    IN  [k \in 1..Len(idx) |-> pool[idx[k]]]

BasePathways == File(PwFull, PathwayPool(PwFull))
BaseLevels == File(LvFull, <<LevelRow(LvFull, "L1"), LevelRow(LvFull, "L2"),
                             LevelRow(LvFull, "L3")>>)

BaseSourceStops ==
    File(SrcFull, <<StopRow(SrcFull, "S1", "", "", "a"),
                    StopRow(SrcFull, "P1", "S1", "L1", "a"),
                    StopRow(SrcFull, "P2", "P1", "L2", ""),
                    StopRow(SrcFull, "X9", "", "L3", "a")>>)

BaseTargetStops ==
    File(TgtTpis, <<StopRow(TgtTpis, "X9", "", "L9", "b"),
                    StopRow(TgtTpis, "P1", "S1", "L9", "b")>>)

OldPathways == File(PwFull, <<PathwayRow(PwFull, "old", "X9", "X9")>>)
OldLevels == File(LvFull, <<LevelRow(LvFull, "L9")>>)

BaseSource == Feed(BaseSourceStops, BasePathways, BaseLevels, "source extras")
BaseTarget == Feed(BaseTargetStops, OldPathways, OldLevels, "target extras")
Installed == Feed(BaseTargetStops, NoTable, OldLevels, "installed extras")
Stale == Feed(NoTable, OldPathways, NoTable, "left by an earlier run")

Inputs(ps, gt, roots, szip, tzip, inst) ==
    [pathways_source |-> ps, gtfs_target |-> gt, INCLUDED_STOPS |-> roots,
     source_zip |-> szip, target_zip |-> tzip, installed |-> inst]

NoReport == [stops_updated |-> -1, stops_total |-> -1,
             pathways_rows |-> -1, levels_rows |-> -1]

Start(i) ==
    /\ inp = i
    /\ pc = "step1"
    /\ fs = [d \in DirNames |->
               IF d = CURRENT_RAIL_DIR THEN i.installed
               ELSE IF d = GTFS_TARGET_DIR THEN Stale ELSE NoDir]
    /\ stops_df = NoTable
    /\ in_scope = {}
    /\ iterations = 0
    /\ scoped_stops = NoTable
    /\ scoped_pathways = NoTable
    /\ scoped_levels = NoTable
    /\ target_stops_df = NoTable
    /\ out = {}
    /\ report = NoReport

\* Source stops tables over every hierarchy of at most MaxStops stops.
HierarchyStops(ids, par) ==
    LET s == SelectSeq(IdSeq, LAMBDA x : x \in ids)
    IN  File(SrcFull, [k \in 1..Len(s) |->
                         StopRow(SrcFull, s[k], par[s[k]], "L1", "a")])

InitClosure ==
    \E roots \in RootSets :
    \E ids \in {x \in SUBSET Ids : Cardinality(x) <= MaxStops} :
    \E par \in [ids -> Ids \cup {""}] :
       Start(Inputs("prompt", "prompt", roots,
                    [BaseSource EXCEPT !.stops = HierarchyStops(ids, par)],
                    BaseTarget, Installed))

\* Merge inputs: source and target stops over several schemas, cell texts
\* and target row orders; S1 is the root, P1 its platform, X9 out of scope.
SrcTpis == <<"stop_id", "stop_name", "tpis_name", "location_type",
             "parent_station", "stop_code", "level_id">>
SrcVals == {"", "a", "NA"}
TgtVals == {"", "b"}
TargetIds == {"S1", "P1", "P2", "X9"}

MergeSourceStops(schema, v1, v2, lvl) ==
    File(schema, <<StopRow(schema, "S1", "", "", v1),
                   StopRow(schema, "P1", "S1", lvl, v2),
                   StopRow(schema, "X9", "", "L3", "a")>>)

\* Sequences of distinct target ids of length at most MaxTargetStops.
TargetIdSeqs ==
    {q \in UNION {[1..n -> TargetIds] : n \in 0..MaxTargetStops} :
        \A i, j \in 1..Len(q) : q[i] = q[j] => i = j}

MergeTargetStops(schema, q, w) ==
    File(schema, [k \in 1..Len(q) |->
                    StopRow(schema, q[k],
                            IF q[k] \in {"P1", "P2"} THEN "S1" ELSE "",
                            "L9", w[k])])

InitMerge ==
    \E sschema \in {SrcFull, SrcNoLevel, SrcTpis} :
    \E v1 \in SrcVals, v2 \in SrcVals, lvl \in {"", "L1"} :
    \E tschema \in {TgtBasic, TgtTpis, TgtNoKey} :
    \E q \in TargetIdSeqs :
    \E w \in [1..Len(q) -> TgtVals] :
       Start(Inputs("prompt", "prompt", {"S1"},
                    [BaseSource EXCEPT
                        !.stops = MergeSourceStops(sschema, v1, v2, lvl),
                        !.levels = IF sschema = SrcNoLevel THEN NoTable
                                   ELSE BaseLevels],
                    [BaseTarget EXCEPT
                        !.stops = MergeTargetStops(tschema, q, w)],
                    Installed))

\* Secondary tables: pathways and levels present, empty or absent.
SourcePathwayFiles ==
    {NoTable} \cup
    {File(schema, Pick(PathwayPool(schema), pick)) :
        schema \in {PwFull, PwNoMode, PwNoFrom},
        pick \in {x \in SUBSET (1..4) : Cardinality(x) <= MaxPathways}}

SourceLevelFiles ==
    {NoTable, BaseLevels, File(LvFull, <<>>),
     File(LvFull, <<LevelRow(LvFull, "L1"), LevelRow(LvFull, ""),
                    LevelRow(LvFull, "L3")>>),
     File(LvNoKey, <<LevelRow(LvNoKey, "L1")>>)}

InitSecondary ==
    \E roots \in {{"S1"}, {"X9"}, {"R0"}} :
    \E sschema \in {SrcFull, SrcNoLevel} :
    \E pw \in SourcePathwayFiles, lv \in SourceLevelFiles :
    \E tpw \in {NoTable, OldPathways}, tlv \in {NoTable, OldLevels} :
       Start(Inputs("prompt", "prompt", roots,
                    Feed(MergeSourceStops(sschema, "a", "a", "L1"), pw, lv,
                         "source extras"),
                    Feed(BaseTargetStops, tpw, tlv, "target extras"),
                    Installed))

\* Command-line choices and missing directories, archives or files.
InitArgs ==
    \E ps \in {"current", "prompt"}, gt \in {"current", "gitlab", "prompt"} :
    \E szip \in {NoDir, BaseSource, [BaseSource EXCEPT !.stops = NoTable],
                 [BaseSource EXCEPT !.stops = File(SrcNoParent, <<>>)],
                 [BaseSource EXCEPT !.stops = File(SrcNoName, <<>>)]} :
    \E tzip \in {NoDir, BaseTarget, [BaseTarget EXCEPT !.stops = NoTable]} :
    \E inst \in {NoDir, Installed, BaseSource} :
       Start(Inputs(ps, gt, {"S1"}, szip, tzip, inst))

Init == InitClosure \/ InitMerge \/ InitSecondary \/ InitArgs

Next ==
    \/ Step1Current \/ Step1Prompt \/ Step1Fail
    \/ Step2Current \/ Step2Unzip \/ Step2Fail
    \/ Step3Read \/ Step3ReadFail
    \/ LoopIter \/ LoopBreak \/ LoopFail
    \/ Step3Scoped \/ Step3ScopedFail
    \/ Step4Skip \/ Step4Filter \/ Step4Fail
    \/ Step5Skip \/ Step5Filter \/ Step5Fail
    \/ Step6Stops \/ Step6StopsFail
    \/ Step6PathwaysWrite \/ Step6PathwaysWarn
    \/ Step6LevelsWrite \/ Step6LevelsSkip
    \/ Step7Rmtree \/ Step7Copytree

Spec == Init /\ [][Next]_vars

\* The interpreter runs the loop without waiting: a pass that can be taken
\* is taken.
LoopStep == LoopIter \/ LoopBreak \/ LoopFail

LiveSpec == Spec /\ WF_vars(LoopStep)

TypeOK ==
    /\ pc \in {"step1", "step2", "step3", "loop", "scoped", "step4", "step5",
               "step6_stops", "step6_pathways", "step6_levels",
               "step7_rmtree", "step7_copytree", "done", "failed"}
    /\ DOMAIN fs = DirNames
    /\ iterations \in Nat

\* ------------------------------------------------------------- claims
\* Program positions after the closure loop has exited.
AfterLoop == {"scoped", "step4", "step5", "step6_stops", "step6_pathways",
              "step6_levels", "step7_rmtree", "step7_copytree", "done"}

StopIdsOf(df) == {df.rows[i]["stop_id"] : i \in 1..Len(df.rows)}

\* x is the stop_id of a row whose parent_station chain reaches a root in at
\* most n + 1 links.
RECURSIVE ReachesRoot(_, _, _, _)
ReachesRoot(df, x, roots, n) ==
    \E i \in 1..Len(df.rows) :
       /\ df.rows[i]["stop_id"] = x
       /\ \/ df.rows[i]["parent_station"] \in roots
          \/ n > 0 /\ ReachesRoot(df, df.rows[i]["parent_station"], roots, n - 1)

Descendants(df, roots) ==
    {x \in StopIdsOf(df) : ReachesRoot(df, x, roots, Len(df.rows))}

\* C1: when the closure loop has exited, in_scope is exactly the roots
\* together with every stop_id whose parent_station chain (of any length
\* >= 1) reaches a root; roots that are no row's stop_id are included.
C1_ClosureExact ==
    pc \in AfterLoop =>
       in_scope = inp.INCLUDED_STOPS \cup Descendants(stops_df, inp.INCLUDED_STOPS)

\* The loop has exited with a root absent from the table, a stop two levels
\* below a root in scope, and a stop left out of scope.
C1_Witness ==
    /\ pc = "scoped"
    /\ \E r \in inp.INCLUDED_STOPS : r \notin StopIdsOf(stops_df)
    /\ \E i \in 1..Len(stops_df.rows) :
          /\ stops_df.rows[i]["stop_id"] \in in_scope
          /\ stops_df.rows[i]["stop_id"] \notin inp.INCLUDED_STOPS
          /\ stops_df.rows[i]["parent_station"] \notin inp.INCLUDED_STOPS
    /\ \E i \in 1..Len(stops_df.rows) : stops_df.rows[i]["stop_id"] \notin in_scope

\* Program positions after the merged stops.txt has been written.
AfterStops == {"step6_pathways", "step6_levels", "step7_rmtree",
               "step7_copytree", "done"}

\* The feed staged into temp/pathways-target by Step 2.
TargetInput == IF inp.gtfs_target = "current" THEN inp.installed ELSE inp.target_zip

\* The target stops table as read at line 275, before the merge.
PreMergeStops == ReadCsv(TargetInput.stops)

ColsOf(df) == Range(df.cols)

\* Rows of df whose stop_id is k.
RowsWithKey(df, k) == {i \in 1..Len(df.rows) : df.rows[i]["stop_id"] = k}

\* Every merged row with key k holds v in column c (and there is one).
MergedHolds(k, c, v) ==
    /\ c \in ColsOf(target_stops_df)
    /\ RowsWithKey(target_stops_df, k) # {}
    /\ \A j \in RowsWithKey(target_stops_df, k) : target_stops_df.rows[j][c] = v

\* C2: for a key in both the target and the scoped stops, every column the
\* target has and the scoped schema lacks keeps the target's pre-merge value.
C2_TargetOnlyColumnsKept ==
    pc \in AfterStops =>
       \A i \in 1..Len(PreMergeStops.rows) :
          LET k == PreMergeStops.rows[i]["stop_id"]
          IN  k \in StopIdsOf(scoped_stops) =>
                 \A c \in ColsOf(PreMergeStops) \ ColsOf(scoped_stops) :
                    MergedHolds(k, c, PreMergeStops.rows[i][c])

\* C3 as stated: every column of the scoped stops that the target lacks is a
\* column of the merged table, empty for target rows out of scope and
\* holding the scoped value for rows in scope.
C3_EverySourceColumnAdded ==
    pc \in AfterStops =>
       \A c \in ColsOf(scoped_stops) \ ColsOf(PreMergeStops) :
          /\ c \in ColsOf(target_stops_df)
          /\ \A i \in 1..Len(PreMergeStops.rows) :
                PreMergeStops.rows[i]["stop_id"] \notin StopIdsOf(scoped_stops) =>
                   MergedHolds(PreMergeStops.rows[i]["stop_id"], c, "")
          /\ \A j \in 1..Len(scoped_stops.rows) :
                MergedHolds(scoped_stops.rows[j]["stop_id"], c, scoped_stops.rows[j][c])

\* C3 amended: the statement holds for the pathway-related columns
\* stop_timezone, wheelchair_boarding and level_id; any other column that
\* only the scoped stops have is not a column of the merged table.
C3_PathwayColumnsAdded ==
    pc \in AfterStops =>
       \A c \in ColsOf(scoped_stops) \ ColsOf(PreMergeStops) :
          IF c \in {"stop_timezone", "wheelchair_boarding", "level_id"}
          THEN /\ c \in ColsOf(target_stops_df)
               /\ \A i \in 1..Len(PreMergeStops.rows) :
                     PreMergeStops.rows[i]["stop_id"] \notin StopIdsOf(scoped_stops) =>
                        MergedHolds(PreMergeStops.rows[i]["stop_id"], c, "")
               /\ \A j \in 1..Len(scoped_stops.rows) :
                     MergedHolds(scoped_stops.rows[j]["stop_id"], c,
                                 scoped_stops.rows[j][c])
          ELSE c \notin ColsOf(target_stops_df)

\* The merge has run on a target without level_id whose rows include one in
\* scope and one out of scope, the scoped stops carrying a level.
C3_Witness ==
    /\ pc \in AfterStops
    /\ "level_id" \in ColsOf(scoped_stops) \ ColsOf(PreMergeStops)
    /\ "platform_code" \in ColsOf(scoped_stops) \ ColsOf(PreMergeStops)
    /\ \E i \in 1..Len(PreMergeStops.rows) :
          PreMergeStops.rows[i]["stop_id"] \notin StopIdsOf(scoped_stops)
    /\ \E j \in 1..Len(scoped_stops.rows) :
          /\ scoped_stops.rows[j]["level_id"] # ""
          /\ scoped_stops.rows[j]["stop_id"] \in StopIdsOf(PreMergeStops)

\* The target was merged with a target-only column whose cell, in a row that
\* is also in scope, was not empty before the merge.
C2_Violation ==
    /\ pc \in AfterStops
    /\ \E i \in 1..Len(PreMergeStops.rows) :
          /\ PreMergeStops.rows[i]["stop_id"] \in StopIdsOf(scoped_stops)
          /\ \E c \in ColsOf(PreMergeStops) \ ColsOf(scoped_stops) :
                /\ PreMergeStops.rows[i][c] # ""
                /\ MergedHolds(PreMergeStops.rows[i]["stop_id"], c, "")

\* C5: every target row whose stop_id is not a scoped key is in the merged
\* table with the pre-merge value in every column the target had, and the
\* empty string in every column the merge added.
C5_UntouchedRowsPreserved ==
    pc \in AfterStops =>
       \A i \in 1..Len(PreMergeStops.rows) :
          LET row == PreMergeStops.rows[i]
          IN  row["stop_id"] \notin StopIdsOf(scoped_stops) =>
                 /\ \A c \in ColsOf(PreMergeStops) :
                       MergedHolds(row["stop_id"], c, row[c])
                 /\ \A c \in ColsOf(target_stops_df) \ ColsOf(PreMergeStops) :
                       MergedHolds(row["stop_id"], c, "")

\* A merge that updated one target row and left another, non-empty one, out
\* of scope, while adding a column and moving tpis_name.
C5_Witness ==
    /\ pc \in AfterStops
    /\ ColsOf(target_stops_df) \ ColsOf(PreMergeStops) # {}
    /\ "tpis_name" \in ColsOf(PreMergeStops)
    /\ \E i, j \in 1..Len(PreMergeStops.rows) :
          /\ PreMergeStops.rows[i]["stop_id"] \notin StopIdsOf(scoped_stops)
          /\ PreMergeStops.rows[i]["tpis_name"] # ""
          /\ PreMergeStops.rows[j]["stop_id"] \in StopIdsOf(scoped_stops)

\* C6 as stated: for a key in both tables, every column of the scoped stops
\* holds the scoped value in the merged row.
C6_EveryScopedColumnOverwrites ==
    pc \in AfterStops =>
       \A j \in 1..Len(scoped_stops.rows) :
          LET row == scoped_stops.rows[j]
          IN  row["stop_id"] \in StopIdsOf(PreMergeStops) =>
                 \A c \in ColsOf(scoped_stops) :
                    MergedHolds(row["stop_id"], c, row[c])

\* C6 amended: for a key in both tables, every column of the scoped stops
\* that is a column of the merged table (a target column or one of the
\* three pathway-related columns) holds the scoped value, the empty string
\* included.
C6_MergedColumnsOverwritten ==
    pc \in AfterStops =>
       \A j \in 1..Len(scoped_stops.rows) :
          LET row == scoped_stops.rows[j]
          IN  row["stop_id"] \in StopIdsOf(PreMergeStops) =>
                 \A c \in ColsOf(scoped_stops) :
                    c \in ColsOf(PreMergeStops)
                          \cup {"stop_timezone", "wheelchair_boarding", "level_id"}
                       => MergedHolds(row["stop_id"], c, row[c])

\* A scoped row overwrote a non-empty target stop_name with the empty string.
C6_Witness ==
    /\ pc \in AfterStops
    /\ \E j \in 1..Len(scoped_stops.rows), i \in 1..Len(PreMergeStops.rows) :
          /\ scoped_stops.rows[j]["stop_id"] = PreMergeStops.rows[i]["stop_id"]
          /\ "stop_name" \in ColsOf(PreMergeStops)
          /\ scoped_stops.rows[j]["stop_name"] = ""
          /\ PreMergeStops.rows[i]["stop_name"] # ""
          /\ MergedHolds(scoped_stops.rows[j]["stop_id"], "stop_name", "")

\* Program positions after the pathways and after the levels step of Step 6.
AfterPathways == {"step6_levels", "step7_rmtree", "step7_copytree", "done"}
AfterLevels == {"step7_rmtree", "step7_copytree", "done"}

SourceDir == fs[PATHWAYS_SOURCE_DIR]
TargetDir == fs[GTFS_TARGET_DIR]

\* C4: whenever the run has written a pathways table, both endpoints of
\* every written pathway are stop_ids of the merged stops table.
C4_NoDanglingEndpoint ==
    (pc \in AfterPathways /\ scoped_pathways.exists) =>
       \A i \in 1..Len(TargetDir.pathways.rows) :
          /\ TargetDir.pathways.rows[i]["from_stop_id"] \in StopIdsOf(TargetDir.stops)
          /\ TargetDir.pathways.rows[i]["to_stop_id"] \in StopIdsOf(TargetDir.stops)

\* C7: a source pathway row is in scoped_pathways iff both its endpoints are
\* in the closure set; the scoped rows are source rows, unaltered, each once
\* and in source order.
C7_ConjunctiveScoping ==
    scoped_pathways.exists =>
       LET df == ReadCsv(SourceDir.pathways)
           both == {i \in 1..Len(df.rows) :
                      /\ df.rows[i]["from_stop_id"] \in in_scope
                      /\ df.rows[i]["to_stop_id"] \in in_scope}
       IN  /\ scoped_pathways.cols = df.cols
           /\ \A i \in 1..Len(df.rows) :
                 i \in both <=> \E j \in 1..Len(scoped_pathways.rows) :
                                   scoped_pathways.rows[j] = df.rows[i]
           /\ \A j \in 1..Len(scoped_pathways.rows) :
                 \E i \in both : scoped_pathways.rows[j] = df.rows[i]
           /\ Len(scoped_pathways.rows) = Cardinality(both)

\* Step 4 has kept a pathway with both endpoints in scope and dropped one
\* with exactly one endpoint in scope.
C7_Witness ==
    /\ pc = "step5" /\ scoped_pathways.exists
    /\ Len(scoped_pathways.rows) > 0
    /\ \E i \in 1..Len(SourceDir.pathways.rows) :
          LET r == SourceDir.pathways.rows[i]
          IN  /\ (r["from_stop_id"] \in in_scope) # (r["to_stop_id"] \in in_scope)
              /\ \A j \in 1..Len(scoped_pathways.rows) : scoped_pathways.rows[j] # r

\* C8: with no pathways.txt in the source, the target's pathways.txt after
\* Step 6 is the one Step 2 staged and the warning is printed; with no
\* levels.txt, the target's levels.txt is the staged one; in both cases the
\* merged stops and the other table, when its source is present, are written.
C8_SkipRule ==
    /\ (pc \in AfterPathways /\ ~SourceDir.pathways.exists) =>
          /\ TargetDir.pathways = TargetInput.pathways
          /\ "WARNING: No pathways data found in pathways source" \in out
          /\ TargetDir.stops = ToCsv(target_stops_df)
          /\ target_stops_df.exists
    /\ (pc \in AfterLevels /\ ~SourceDir.levels.exists) =>
          /\ TargetDir.levels = TargetInput.levels
          /\ "levels.txt - no source data; skipped." \in out
          /\ TargetDir.stops = ToCsv(target_stops_df)
          /\ target_stops_df.exists
          /\ SourceDir.pathways.exists => TargetDir.pathways = ToCsv(scoped_pathways)
    /\ (pc \in AfterLevels /\ ~SourceDir.pathways.exists /\ SourceDir.levels.exists) =>
          TargetDir.levels = ToCsv(scoped_levels)

\* A completed run whose source had levels.txt but no pathways.txt, on a
\* target that had a pathways.txt.
C8_Witness ==
    /\ pc = "done"
    /\ ~SourceDir.pathways.exists /\ SourceDir.levels.exists
    /\ TargetInput.pathways.exists /\ Len(TargetInput.pathways.rows) > 0
    /\ TargetDir.pathways = TargetInput.pathways

\* C9: with pathways.txt (levels.txt) in the source, the target's table after
\* Step 6 is exactly the scoped table, zero rows included, so every row of
\* it is a source row and no row of the prior target table is left.
C9_ReplaceRule ==
    /\ (pc \in AfterPathways /\ SourceDir.pathways.exists) =>
          /\ TargetDir.pathways.exists
          /\ TargetDir.pathways.cols = scoped_pathways.cols
          /\ TargetDir.pathways.rows = scoped_pathways.rows
          /\ \A i \in 1..Len(TargetDir.pathways.rows) :
                InSeq(ReadCsv(SourceDir.pathways).rows, TargetDir.pathways.rows[i])
    /\ (pc \in AfterLevels /\ SourceDir.levels.exists) =>
          /\ TargetDir.levels.exists
          /\ TargetDir.levels.cols = scoped_levels.cols
          /\ TargetDir.levels.rows = scoped_levels.rows
          /\ \A i \in 1..Len(TargetDir.levels.rows) :
                InSeq(ReadCsv(SourceDir.levels).rows, TargetDir.levels.rows[i])

\* Zero pathways in scope replaced a target pathways.txt that had rows.
C9_Witness ==
    /\ pc \in AfterPathways
    /\ SourceDir.pathways.exists /\ Len(SourceDir.pathways.rows) > 0
    /\ Len(TargetInput.pathways.rows) > 0
    /\ TargetDir.pathways.exists /\ TargetDir.pathways.rows = <<>>

\* C10: the installed feed differs from the one the run started with only
\* once Step 7 has begun; a run that failed earlier left it as it was.
C10_InstalledFeedUntouched ==
    pc \notin {"step7_copytree", "done"} => fs[CURRENT_RAIL_DIR] = inp.installed

\* The run failed in Step 6 on the target stops table, with a feed installed.
C10_Witness ==
    /\ pc = "failed"
    /\ "Error: target stops.txt" \in out
    /\ inp.installed.exists
    /\ fs[CURRENT_RAIL_DIR] = inp.installed

\* The target stops table staged by Step 2 has no stop_id column.
TargetLacksKey ==
    TargetInput.stops.exists /\ ~InSeq(TargetInput.stops.cols, "stop_id")

\* C11: with no stop_id column in the target stops table the run never gets
\* past the stops merge, and when it has aborted the staged target
\* directory (stops, pathways, levels) and the installed feed are as they
\* were before the merge.
C11_MissingKeyColumn ==
    (TargetLacksKey /\ pc \notin {"step1", "step2"}) =>
       /\ pc \notin AfterStops
       /\ TargetDir = TargetInput
       /\ fs[CURRENT_RAIL_DIR] = inp.installed
       /\ pc = "failed" => out # {}

\* The run reached the stops merge on a target without stop_id and aborted
\* there, the target having pathways and levels tables.
C11_Witness ==
    /\ pc = "failed"
    /\ TargetLacksKey
    /\ "Error: target stops.txt" \in out
    /\ scoped_stops.exists /\ Len(scoped_stops.rows) > 0
    /\ TargetInput.pathways.exists /\ TargetInput.levels.exists

\* C12: the scoped levels are exactly the source level rows whose level_id
\* is the non-empty level_id of some scoped stop, unaltered and once each.
C12_LevelsThroughStops ==
    scoped_levels.exists =>
       LET df == ReadCsv(SourceDir.levels)
           sel == {i \in 1..Len(df.rows) :
                     /\ df.rows[i]["level_id"] # ""
                     /\ \E j \in 1..Len(scoped_stops.rows) :
                           scoped_stops.rows[j]["level_id"] = df.rows[i]["level_id"]}
       IN  /\ scoped_levels.cols = df.cols
           /\ \A i \in 1..Len(df.rows) :
                 i \in sel <=> InSeq(scoped_levels.rows, df.rows[i])
           /\ \A j \in 1..Len(scoped_levels.rows) :
                 \E i \in sel : scoped_levels.rows[j] = df.rows[i]
           /\ Len(scoped_levels.rows) = Cardinality(sel)

\* Step 5 selected a level, left out one used only by an out-of-scope stop,
\* and left out the level row with an empty level_id although a scoped stop
\* has an empty level_id.
C12_Witness ==
    /\ pc = "step6_stops" /\ scoped_levels.exists
    /\ Len(scoped_levels.rows) > 0
    /\ \E j \in 1..Len(scoped_stops.rows) : scoped_stops.rows[j]["level_id"] = ""
    /\ \E i \in 1..Len(SourceDir.levels.rows) :
          /\ SourceDir.levels.rows[i]["level_id"] = ""
          /\ ~InSeq(scoped_levels.rows, SourceDir.levels.rows[i])
    /\ \E i \in 1..Len(SourceDir.levels.rows), k \in 1..Len(stops_df.rows) :
          /\ stops_df.rows[k]["level_id"] = SourceDir.levels.rows[i]["level_id"]
          /\ stops_df.rows[k]["stop_id"] \notin in_scope
          /\ ~InSeq(scoped_levels.rows, SourceDir.levels.rows[i])

\* C13: the closure loop run on the same stops table with its own result as
\* root set returns that result, for the program's result and for every
\* modelled root set.
C13_ClosureIdempotent ==
    pc \in AfterLoop =>
       /\ in_scope = ClosureLoop(stops_df, inp.INCLUDED_STOPS)
       /\ ClosureLoop(stops_df, in_scope) = in_scope
       /\ \A roots \in RootSets \cup SUBSET StopIdsOf(stops_df) :
             ClosureLoop(stops_df, ClosureLoop(stops_df, roots))
                = ClosureLoop(stops_df, roots)

\* The loop has exited after adding stops on two levels below the roots.
C13_Witness ==
    /\ pc = "scoped"
    /\ iterations >= 3
    /\ in_scope # inp.INCLUDED_STOPS

\* C15: the closure loop halts; every pass that does not halt adds an id
\* that was not in the set; the passes, the halting one included, number at
\* most the distinct stop_ids of the table plus one.
C15_ClosureTerminates ==
    /\ [](pc \in {"loop"} \cup AfterLoop =>
            iterations <= Cardinality(StopIdsOf(stops_df)) + 1)
    /\ [][(pc = "loop" /\ pc' = "loop") =>
            (in_scope \subseteq in_scope' /\ in_scope' # in_scope
             /\ in_scope' \ in_scope \subseteq StopIdsOf(stops_df))]_vars
    /\ (pc = "loop" ~> pc # "loop")

\* The loop has exited on a table whose parent_station relation has a cycle
\* (or a stop that is its own parent) inside the scope.
C15_Witness ==
    /\ pc = "scoped"
    /\ iterations >= 2
    /\ \E i, j \in 1..Len(stops_df.rows) :
          /\ stops_df.rows[i]["parent_station"] = stops_df.rows[j]["stop_id"]
          /\ stops_df.rows[j]["parent_station"] = stops_df.rows[i]["stop_id"]
          /\ stops_df.rows[i]["stop_id"] \in in_scope
          /\ stops_df.rows[i]["stop_id"] \notin inp.INCLUDED_STOPS

\* C14: every column the target stops table had before the merge is a
\* column of the merged table and of the stops.txt written from it.
C14_TargetColumnsKept ==
    pc \in AfterStops =>
       /\ ColsOf(PreMergeStops) \subseteq ColsOf(target_stops_df)
       /\ ColsOf(PreMergeStops) \subseteq ColsOf(TargetDir.stops)
       /\ \A i \in 1..Len(target_stops_df.rows) :
             ColsOf(PreMergeStops) \subseteq DOMAIN target_stops_df.rows[i]

\* A merge with no scoped row, from a source that lacks target columns.
C14_Witness ==
    /\ pc \in AfterStops
    /\ Len(scoped_stops.rows) = 0
    /\ Len(PreMergeStops.rows) > 0
    /\ ColsOf(PreMergeStops) \ ColsOf(scoped_stops) # {}
    /\ ColsOf(scoped_stops) \ ColsOf(PreMergeStops) # {}

\* C16: apart from tpis_name, the merged column list is the target's column
\* list, in the target's order, followed by the columns the merge
\* introduced; tpis_name, when present, is the last column.
C16_ColumnOrder ==
    pc \in AfterStops =>
       LET t == Without(PreMergeStops.cols, "tpis_name")
           m == Without(target_stops_df.cols, "tpis_name")
       IN  /\ Len(m) >= Len(t)
           /\ \A k \in 1..Len(t) : m[k] = t[k]
           /\ \A k \in (Len(t) + 1)..Len(m) : m[k] \notin ColsOf(PreMergeStops)
           /\ "tpis_name" \in ColsOf(target_stops_df) =>
                 target_stops_df.cols[Len(target_stops_df.cols)] = "tpis_name"

\* Indices of the scoped stops whose key the target did not have.
AppendedIdx ==
    {j \in 1..Len(scoped_stops.rows) :
        scoped_stops.rows[j]["stop_id"] \notin StopIdsOf(PreMergeStops)}

\* C17: the merged rows are the target's rows in their pre-merge order,
\* then the scoped stops with a new key in scoped order; an appended row
\* is empty in every column the scoped stops do not have.
C17_RowOrderAndAppend ==
    pc \in AfterStops =>
       LET n == Len(PreMergeStops.rows)
           rank(j) == Cardinality({x \in AppendedIdx : x <= j})
       IN  /\ Len(target_stops_df.rows) = n + Cardinality(AppendedIdx)
           /\ \A i \in 1..n :
                 target_stops_df.rows[i]["stop_id"] = PreMergeStops.rows[i]["stop_id"]
           /\ \A j \in AppendedIdx :
                 LET row == target_stops_df.rows[n + rank(j)]
                 IN  /\ row["stop_id"] = scoped_stops.rows[j]["stop_id"]
                     /\ \A c \in ColsOf(target_stops_df) \ ColsOf(scoped_stops) :
                           row[c] = ""

\* Two scoped stops were appended below target rows of which one is not in
\* the source, the target having a column of its own.
C17_Witness ==
    /\ pc \in AfterStops
    /\ Cardinality(AppendedIdx) >= 2
    /\ Len(PreMergeStops.rows) >= 2
    /\ ColsOf(PreMergeStops) \ ColsOf(scoped_stops) # {}
    /\ \E i \in 1..Len(PreMergeStops.rows) : PreMergeStops.rows[i]["tpis_name"] # ""

\* C18: the reported "updated" count is the number of scoped stops whose key
\* the target already had, and the reported total is the target's prior row
\* count plus the number of scoped stops whose key it did not have.
C18_ReportCounts ==
    pc \in AfterStops =>
       /\ report.stops_updated = Len(scoped_stops.rows) - Cardinality(AppendedIdx)
       /\ report.stops_total = Len(PreMergeStops.rows) + Cardinality(AppendedIdx)

\* C19: the keys of the merged stops table are the target's keys together
\* with the scoped keys, each on one row.
C19_MergeNeverDeletes ==
    pc \in AfterStops =>
       /\ StopIdsOf(target_stops_df) = StopIdsOf(PreMergeStops) \cup StopIdsOf(scoped_stops)
       /\ \A k \in StopIdsOf(target_stops_df) :
             Cardinality(RowsWithKey(target_stops_df, k)) = 1
       /\ StopIdsOf(TargetDir.stops) = StopIdsOf(target_stops_df)

\* The target had a stop under the root that the source no longer has, and
\* the merge both updated and appended rows; the stop is still there.
C19_Witness ==
    /\ pc \in AfterStops
    /\ "parent_station" \in ColsOf(PreMergeStops)
    /\ \E i \in 1..Len(PreMergeStops.rows) :
          /\ PreMergeStops.rows[i]["parent_station"] \in inp.INCLUDED_STOPS
          /\ PreMergeStops.rows[i]["stop_id"] \notin StopIdsOf(stops_df)
          /\ PreMergeStops.rows[i]["stop_id"] \in StopIdsOf(target_stops_df)
    /\ AppendedIdx # {}
    /\ \E i \in 1..Len(PreMergeStops.rows) :
          PreMergeStops.rows[i]["stop_id"] \in StopIdsOf(scoped_stops)

====
